---- MODULE Spec2Model ----
(***************************************************************************)
(* Model of the quiz-master Lambda handlers:                               *)
(*   src/lambda_function.py  lambda_handler (Basic-Auth gated variant)     *)
(*   src/handler.py          lambda_handler (plain variant)                *)
(*                                                                         *)
(* A Python str is a sequence of one-character atoms.  Python values that  *)
(* travel through json.loads / json.dumps / dict.get are tagged records    *)
(* (JNull, JBool, JNum, JStr, JList, JObj).  A handler invocation runs in  *)
(* one step up to the upstream model call (the one blocking operation),    *)
(* and in a second step from the upstream outcome to the returned          *)
(* envelope.                                                               *)
(***************************************************************************)
EXTENDS Integers, Sequences, FiniteSets, TLC

(***************************************************************************)
(* Characters and strings                                                  *)
(***************************************************************************)
DQ == "\""
BS == "\\"
NL == "\n"
TAB == "\t"
CR == "\r"
BQ == "BACKTICK"

\* A string literal without quote, backslash, backtick or control characters,
\* as the sequence of its characters.
Chars(s) == [i \in 1..Len(s) |-> SubSeq(s, i, i)]

Whitespace == {" ", NL, TAB, CR}
Digits == Chars("0123456789")

IsDigit(c) == \E i \in 1..10 : Digits[i] = c
DigitVal(c) == (CHOOSE i \in 1..10 : Digits[i] = c) - 1

StartsWith(s, p) == Len(s) >= Len(p) /\ SubSeq(s, 1, Len(p)) = p
EndsWith(s, p) == Len(s) >= Len(p) /\ SubSeq(s, Len(s) - Len(p) + 1, Len(s)) = p
MatchAt(s, i, p) == i + Len(p) - 1 <= Len(s) /\ SubSeq(s, i, i + Len(p) - 1) = p

\* First index >= i of s holding a non-whitespace character (Len(s)+1 if none).
RECURSIVE SkipWs(_, _)
SkipWs(s, i) == IF i <= Len(s) /\ s[i] \in Whitespace THEN SkipWs(s, i + 1) ELSE i

\* str.strip()
RECURSIVE RStripEnd(_, _)
RStripEnd(s, j) == IF j >= 1 /\ s[j] \in Whitespace THEN RStripEnd(s, j - 1) ELSE j
Strip(s) == SubSeq(s, SkipWs(s, 1), RStripEnd(s, Len(s)))

\* sep.join(parts)
RECURSIVE Join(_, _)
Join(sep, parts) ==
    IF parts = <<>> THEN <<>>
    ELSE IF Len(parts) = 1 THEN parts[1]
    ELSE parts[1] \o sep \o Join(sep, Tail(parts))

\* Index of the first occurrence of character c in s at or after i, 0 if none.
RECURSIVE IndexFrom(_, _, _)
IndexFrom(s, c, i) ==
    IF i > Len(s) THEN 0 ELSE IF s[i] = c THEN i ELSE IndexFrom(s, c, i + 1)

\* s.split(c): all the pieces between occurrences of c
RECURSIVE SplitAll(_, _)
SplitAll(s, c) ==
    LET i == IndexFrom(s, c, 1)
    IN  IF i = 0 THEN <<s>>
        ELSE <<SubSeq(s, 1, i - 1)>> \o SplitAll(SubSeq(s, i + 1, Len(s)), c)

\* s.split(c, 1): split once, on the first occurrence of c
SplitOnce(s, c) ==
    LET i == IndexFrom(s, c, 1)
    IN  IF i = 0 THEN <<s>>
        ELSE <<SubSeq(s, 1, i - 1), SubSeq(s, i + 1, Len(s))>>

\* str(n) of a non-negative int
RECURSIVE DigitsOf(_)
DigitsOf(n) == IF n < 10 THEN <<Digits[n + 1]>> ELSE DigitsOf(n \div 10) \o <<Digits[(n % 10) + 1]>>

(***************************************************************************)
(* Python values                                                           *)
(***************************************************************************)
JNull == [k |-> "null"]
JBool(b) == [k |-> "bool", b |-> b]
JNum(n) == [k |-> "num", n |-> n]
JStr(s) == [k |-> "str", s |-> s]
JList(items) == [k |-> "list", items |-> items]
\* a dict is the sequence of its (key, value) items in insertion order
JObj(m) == [k |-> "obj", m |-> m]
Item(key, val) == [key |-> key, val |-> val]

IsStr(v) == v.k = "str"
IsList(v) == v.k = "list"
IsDict(v) == v.k = "obj"

\* Python truthiness ("if not x")
Truthy(v) ==
    CASE v.k = "null" -> FALSE
      [] v.k = "bool" -> v.b
      [] v.k = "num" -> v.n # 0
      [] v.k = "str" -> v.s # <<>>
      [] v.k = "list" -> v.items # <<>>
      [] v.k = "obj" -> v.m # <<>>

\* key in d
HasKey(d, key) == \E i \in 1..Len(d.m) : d.m[i].key = key

\* d.get(key, default)
DictGet(d, key, default) ==
    IF HasKey(d, key) THEN d.m[CHOOSE i \in 1..Len(d.m) : d.m[i].key = key].val
    ELSE default

\* d[key] = val on the item sequence m: an existing key keeps its position
DictSet(m, key, val) ==
    IF \E i \in 1..Len(m) : m[i].key = key
    THEN [i \in 1..Len(m) |-> IF m[i].key = key THEN Item(key, val) ELSE m[i]]
    ELSE Append(m, Item(key, val))

\* type(v).__name__, as it appears in an AttributeError message
TypeName(v) ==
    CASE v.k = "null" -> Chars("NoneType")
      [] v.k = "bool" -> Chars("bool")
      [] v.k = "num" -> Chars("int")
      [] v.k = "str" -> Chars("str")
      [] v.k = "list" -> Chars("list")
      [] v.k = "obj" -> Chars("dict")

\* str(v) for the scalar values a tag can be
PyStr(v) ==
    CASE v.k = "str" -> v.s
      [] v.k = "num" -> DigitsOf(v.n)
      [] v.k = "null" -> Chars("None")
      [] v.k = "bool" -> IF v.b THEN Chars("True") ELSE Chars("False")

(***************************************************************************)
(* json.dumps (default separators ", " and ": ")                           *)
(***************************************************************************)
EscapeChar(c) ==
    CASE c = DQ -> <<BS, DQ>>
      [] c = BS -> <<BS, BS>>
      [] c = NL -> <<BS, "n">>
      [] c = TAB -> <<BS, "t">>
      [] c = CR -> <<BS, "r">>
      [] OTHER -> <<c>>

\* the escapes of the characters of s, in order (split in halves to keep the
\* evaluation shallow on long messages)
RECURSIVE Escape(_)
Escape(s) ==
    IF s = <<>> THEN <<>>
    ELSE IF Len(s) = 1 THEN EscapeChar(s[1])
    ELSE LET h == Len(s) \div 2
         IN  Escape(SubSeq(s, 1, h)) \o Escape(SubSeq(s, h + 1, Len(s)))

Quote(s) == <<DQ>> \o Escape(s) \o <<DQ>>

RECURSIVE Dumps(_)
Dumps(v) ==
    CASE v.k = "null" -> Chars("null")
      [] v.k = "bool" -> IF v.b THEN Chars("true") ELSE Chars("false")
      [] v.k = "num" -> IF v.n < 0 THEN <<"-">> \o DigitsOf(0 - v.n) ELSE DigitsOf(v.n)
      [] v.k = "str" -> Quote(v.s)
      [] v.k = "list" ->
            <<"[">> \o Join(Chars(", "), [i \in 1..Len(v.items) |-> Dumps(v.items[i])]) \o <<"]">>
      [] v.k = "obj" ->
            <<"{">> \o Join(Chars(", "),
                           [i \in 1..Len(v.m) |->
                               Quote(v.m[i].key) \o Chars(": ") \o Dumps(v.m[i].val)])
                   \o <<"}">>

(***************************************************************************)
(* json.loads: ok = FALSE stands for json.JSONDecodeError.  Numbers are    *)
(* the JSON integers; fractions, exponents, NaN/Infinity and \uXXXX        *)
(* escapes are outside the texts the model draws.                          *)
(***************************************************************************)
EOT == "EOT"
At(s, i) == IF i >= 1 /\ i <= Len(s) THEN s[i] ELSE EOT

ParseFail == [ok |-> FALSE, v |-> JNull, pos |-> 0]
ParseOk(v, pos) == [ok |-> TRUE, v |-> v, pos |-> pos]

Unescape(c) ==
    CASE c = DQ -> DQ
      [] c = BS -> BS
      [] c = "/" -> "/"
      [] c = "n" -> NL
      [] c = "t" -> TAB
      [] c = "r" -> CR
      [] OTHER -> EOT

\* the number of backslashes that end right before position j, not looking
\* before position i
BackslashRun(s, i, j) ==
    LET stops == {k \in i..(j - 1) : s[k] # BS}
    IN  IF stops = {} THEN j - i
        ELSE j - 1 - (CHOOSE k \in stops : \A m \in stops : m <= k)

\* position j of a string literal that starts at i is taken by an escape
Escaped(s, i, j) == BackslashRun(s, i, j) % 2 = 1

\* the characters of a string literal, from the position after its opening
\* quote: the scan ends at the first quote that no backslash escapes, and
\* fails on a raw control character or an unknown escape before it
ParseString(s, i) ==
    LET quotes == {j \in i..Len(s) : s[j] = DQ /\ ~Escaped(s, i, j)}
        close == CHOOSE j \in quotes : \A m \in quotes : j <= m
        bad(k) == IF Escaped(s, i, k) THEN Unescape(s[k]) = EOT
                  ELSE s[k] \in {NL, TAB, CR}
        kept == SelectSeq([n \in 1..(close - i) |-> i + n - 1],
                          LAMBDA k : Escaped(s, i, k) \/ s[k] # BS)
    IN  IF quotes = {} THEN ParseFail
        ELSE IF \E k \in i..(close - 1) : bad(k) THEN ParseFail
        ELSE ParseOk(JStr([n \in 1..Len(kept) |->
                             IF Escaped(s, i, kept[n]) THEN Unescape(s[kept[n]])
                             ELSE s[kept[n]]]),
                     close + 1)

\* the run of digits starting at i, as a number
RECURSIVE ParseDigits(_, _, _)
ParseDigits(s, i, n) ==
    IF IsDigit(At(s, i)) THEN ParseDigits(s, i + 1, 10 * n + DigitVal(s[i]))
    ELSE ParseOk(JNum(n), i)

\* -?(0|[1-9][0-9]*)
ParseNumber(s, i) ==
    LET neg == At(s, i) = "-"
        j == IF neg THEN i + 1 ELSE i
        r == IF At(s, j) = "0" THEN ParseOk(JNum(0), j + 1)
             ELSE IF IsDigit(At(s, j)) THEN ParseDigits(s, j, 0)
             ELSE ParseFail
    IN  IF r.ok /\ neg THEN ParseOk(JNum(0 - r.v.n), r.pos) ELSE r

RECURSIVE ParseValue(_, _)
RECURSIVE ParseElems(_, _, _)
RECURSIVE ParseMembers(_, _, _)

ParseArray(s, i) ==
    LET j == SkipWs(s, i)
    IN  IF At(s, j) = "]" THEN ParseOk(JList(<<>>), j + 1) ELSE ParseElems(s, j, <<>>)

ParseObject(s, i) ==
    LET j == SkipWs(s, i)
    IN  CASE At(s, j) = "}" -> ParseOk(JObj(<<>>), j + 1)
          [] At(s, j) = DQ -> ParseMembers(s, j + 1, <<>>)
          [] OTHER -> ParseFail

ParseValue(s, i) ==
    LET c == At(s, i)
    IN  CASE c = DQ -> ParseString(s, i + 1)
          [] c = "{" -> ParseObject(s, i + 1)
          [] c = "[" -> ParseArray(s, i + 1)
          [] c = "n" /\ MatchAt(s, i, Chars("null")) -> ParseOk(JNull, i + 4)
          [] c = "t" /\ MatchAt(s, i, Chars("true")) -> ParseOk(JBool(TRUE), i + 4)
          [] c = "f" /\ MatchAt(s, i, Chars("false")) -> ParseOk(JBool(FALSE), i + 5)
          [] c = "-" \/ IsDigit(c) -> ParseNumber(s, i)
          [] OTHER -> ParseFail

ParseElems(s, i, acc) ==
    LET r == ParseValue(s, i)
        j == SkipWs(s, r.pos)
    IN  IF ~r.ok THEN ParseFail
        ELSE CASE At(s, j) = "]" -> ParseOk(JList(Append(acc, r.v)), j + 1)
               [] At(s, j) = "," -> ParseElems(s, SkipWs(s, j + 1), Append(acc, r.v))
               [] OTHER -> ParseFail

\* i is the position after the opening quote of the next key
ParseMembers(s, i, m) ==
    LET key == ParseString(s, i)
        j == SkipWs(s, key.pos)
        val == ParseValue(s, SkipWs(s, j + 1))
        e == SkipWs(s, val.pos)
        n == SkipWs(s, e + 1)
    IN  IF ~key.ok \/ At(s, j) # ":" THEN ParseFail
        ELSE IF ~val.ok THEN ParseFail
        ELSE CASE At(s, e) = "}" -> ParseOk(JObj(DictSet(m, key.v.s, val.v)), e + 1)
               [] At(s, e) = "," /\ At(s, n) = DQ ->
                     ParseMembers(s, n + 1, DictSet(m, key.v.s, val.v))
               [] OTHER -> ParseFail

Loads(s) ==
    LET r == ParseValue(s, SkipWs(s, 1))
    IN  IF r.ok /\ SkipWs(s, r.pos) > Len(s) THEN [ok |-> TRUE, v |-> r.v]
        ELSE [ok |-> FALSE, v |-> JNull]

(***************************************************************************)
(* re.sub(r'```json\s*|\s*```', '', text)                                  *)
(***************************************************************************)
Fence == <<BQ, BQ, BQ>>
FenceJson == Fence \o Chars("json")

\* Scan from i: at each position the first alternative is tried, then the
\* second; a match is dropped and the scan resumes after it.
RECURSIVE RemoveFencesFrom(_, _)
RemoveFencesFrom(s, i) ==
    IF i > Len(s) THEN <<>>
    ELSE IF MatchAt(s, i, FenceJson) THEN RemoveFencesFrom(s, SkipWs(s, i + Len(FenceJson)))
    ELSE IF MatchAt(s, SkipWs(s, i), Fence) THEN RemoveFencesFrom(s, SkipWs(s, i) + Len(Fence))
    ELSE <<s[i]>> \o RemoveFencesFrom(s, i + 1)

RemoveFences(s) == RemoveFencesFrom(s, 1)

(***************************************************************************)
(* base64.b64decode(s) and bytes.decode('utf-8')                           *)
(***************************************************************************)
\* chr(0) .. chr(127)
AsciiTable ==
    <<"x00", "x01", "x02", "x03", "x04", "x05", "x06", "x07", "x08", TAB, NL, "x0b",
      "x0c", CR, "x0e", "x0f", "x10", "x11", "x12", "x13", "x14", "x15", "x16", "x17",
      "x18", "x19", "x1a", "x1b", "x1c", "x1d", "x1e", "x1f">>
    \o Chars(" !") \o <<DQ>> \o Chars("#$%&'()*+,-./0123456789:;<=>?@")
    \o Chars("ABCDEFGHIJKLMNOPQRSTUVWXYZ[") \o <<BS>> \o Chars("]^_") \o <<BQ>>
    \o Chars("abcdefghijklmnopqrstuvwxyz{|}~") \o <<"x7f">>

IsAscii(c) == \E i \in 1..Len(AsciiTable) : AsciiTable[i] = c

B64Alphabet == Chars("ABCDEFGHIJKLMNOPQRSTUVWXYZabcdefghijklmnopqrstuvwxyz0123456789+/")
IsB64(c) == \E i \in 1..64 : B64Alphabet[i] = c
B64Val(c) == (CHOOSE i \in 1..64 : B64Alphabet[i] = c) - 1

DecodeFail == [ok |-> FALSE, out |-> <<>>]

\* binascii.a2b_base64, non-strict: characters outside the alphabet are
\* skipped, a complete pad sequence ends the input, a dangling quad is an error.
RECURSIVE A2bBase64(_, _, _, _, _, _)
A2bBase64(s, i, quad, left, pads, out) ==
    IF i > Len(s) THEN (IF quad # 0 THEN DecodeFail ELSE [ok |-> TRUE, out |-> out])
    ELSE IF s[i] = "=" THEN
        IF quad >= 2 /\ quad + pads + 1 >= 4 THEN [ok |-> TRUE, out |-> out]
        ELSE A2bBase64(s, i + 1, quad, left, IF quad >= 2 THEN pads + 1 ELSE pads, out)
    ELSE IF ~IsB64(s[i]) THEN A2bBase64(s, i + 1, quad, left, pads, out)
    ELSE LET c == B64Val(s[i])
         IN  CASE quad = 0 -> A2bBase64(s, i + 1, 1, c, 0, out)
               [] quad = 1 -> A2bBase64(s, i + 1, 2, c % 16, 0,
                                        Append(out, left * 4 + (c \div 16)))
               [] quad = 2 -> A2bBase64(s, i + 1, 3, c % 4, 0,
                                        Append(out, left * 16 + (c \div 4)))
               [] quad = 3 -> A2bBase64(s, i + 1, 0, 0, 0, Append(out, left * 64 + c))

\* a str argument must be ASCII (ValueError otherwise)
B64Decode(s) ==
    IF \E i \in 1..Len(s) : ~IsAscii(s[i]) THEN DecodeFail
    ELSE A2bBase64(s, 1, 0, 0, 0, <<>>)

IsCont(b) == b >= 128 /\ b <= 191
ByteAt(bs, i) == IF i <= Len(bs) THEN bs[i] ELSE 0
CodePoint(cp) == "U+" \o ToString(cp)

\* bytes.decode('utf-8'): ok = FALSE stands for UnicodeDecodeError
RECURSIVE Utf8Decode(_, _, _)
Utf8Decode(bs, i, acc) ==
    IF i > Len(bs) THEN [ok |-> TRUE, out |-> acc]
    ELSE LET b == bs[i]
             b2 == ByteAt(bs, i + 1)
             b3 == ByteAt(bs, i + 2)
             b4 == ByteAt(bs, i + 3)
         IN  CASE b < 128 -> Utf8Decode(bs, i + 1, Append(acc, AsciiTable[b + 1]))
               [] b >= 194 /\ b <= 223 /\ IsCont(b2) ->
                     Utf8Decode(bs, i + 2, Append(acc, CodePoint((b % 32) * 64 + (b2 % 64))))
               [] b >= 224 /\ b <= 239 /\ IsCont(b2) /\ IsCont(b3)
                    /\ (b = 224 => b2 >= 160) /\ (b = 237 => b2 <= 159) ->
                     Utf8Decode(bs, i + 3,
                                Append(acc, CodePoint((b % 16) * 4096 + (b2 % 64) * 64 + (b3 % 64))))
               [] b >= 240 /\ b <= 244 /\ IsCont(b2) /\ IsCont(b3) /\ IsCont(b4)
                    /\ (b = 240 => b2 >= 144) /\ (b = 244 => b2 <= 143) ->
                     Utf8Decode(bs, i + 4,
                                Append(acc, CodePoint((b % 8) * 262144 + (b2 % 64) * 4096
                                                      + (b3 % 64) * 64 + (b4 % 64))))
               [] OTHER -> DecodeFail

(***************************************************************************)
(* Envelopes                                                               *)
(***************************************************************************)
JsonHeaders ==
    JObj(<<Item(Chars("Content-Type"), JStr(Chars("application/json"))),
           Item(Chars("Access-Control-Allow-Origin"), JStr(Chars("*")))>>)

Usage(input_tokens, output_tokens) ==
    JObj(<<Item(Chars("input_tokens"), JNum(input_tokens)),
           Item(Chars("output_tokens"), JNum(output_tokens))>>)

create_error_response(status_code, message) ==
    JObj(<<Item(Chars("statusCode"), JNum(status_code)),
           Item(Chars("headers"), JsonHeaders),
           Item(Chars("body"),
                JStr(Dumps(JObj(<<Item(Chars("success"), JBool(FALSE)),
                                  Item(Chars("error"), JStr(message))>>))))>>)

\* the 200 envelope with the parsed data
SuccessResponse(data, usage) ==
    JObj(<<Item(Chars("statusCode"), JNum(200)),
           Item(Chars("headers"), JsonHeaders),
           Item(Chars("body"),
                JStr(Dumps(JObj(<<Item(Chars("success"), JBool(TRUE)),
                                  Item(Chars("data"), data),
                                  Item(Chars("usage"), usage)>>))))>>)

\* the 200 envelope with the warning flag and the raw upstream text
WarningResponse(response_text, usage) ==
    JObj(<<Item(Chars("statusCode"), JNum(200)),
           Item(Chars("headers"), JsonHeaders),
           Item(Chars("body"),
                JStr(Dumps(JObj(<<Item(Chars("success"), JBool(TRUE)),
                                  Item(Chars("warning"), JStr(Chars("Response is not valid JSON"))),
                                  Item(Chars("raw_response"), JStr(response_text)),
                                  Item(Chars("usage"), usage)>>))))>>)

\* the 500 envelopes of the credential gate: no 'headers' key
GateErrorResponse(message) ==
    JObj(<<Item(Chars("statusCode"), JNum(500)),
           Item(Chars("body"), JStr(Dumps(JObj(<<Item(Chars("error"), JStr(message))>>))))>>)

Challenge == Chars("Basic realm=") \o <<DQ>> \o Chars("Restricted Area") \o <<DQ>>

\* the 401 envelopes of the credential gate
Unauthorized(message) ==
    JObj(<<Item(Chars("statusCode"), JNum(401)),
           Item(Chars("headers"), JObj(<<Item(Chars("WWW-Authenticate"), JStr(Challenge))>>)),
           Item(Chars("body"), JStr(Dumps(JObj(<<Item(Chars("error"), JStr(message))>>))))>>)

(***************************************************************************)
(* Outcomes of a stretch of handler code                                   *)
(***************************************************************************)
NoLocals == [prompt |-> JNull, tags |-> <<>>, model |-> JNull, user_message |-> <<>>]

\* the handler returns envelope env
Return(env, authenticated, keyChecked) ==
    [kind |-> "return", env |-> env, exc |-> <<>>, authenticated |-> authenticated,
     keyChecked |-> keyChecked, locals |-> NoLocals]

\* an exception with message exc is raised
Raise(exc, authenticated, keyChecked) ==
    [kind |-> "raise", env |-> JNull, exc |-> exc, authenticated |-> authenticated,
     keyChecked |-> keyChecked, locals |-> NoLocals]

\* control reaches client.messages.create
Call(locals, authenticated) ==
    [kind |-> "call", env |-> JNull, exc |-> <<>>, authenticated |-> authenticated,
     keyChecked |-> TRUE, locals |-> locals]

\* control falls through to the next statement
Pass == [kind |-> "pass", env |-> JNull, exc |-> <<>>, authenticated |-> TRUE,
         keyChecked |-> FALSE, locals |-> NoLocals]

\* AttributeError raised by v.attr
NoAttribute(v, attr) ==
    <<"'">> \o TypeName(v) \o Chars("' object has no attribute '") \o attr \o <<"'">>

\* except Exception as e: return create_error_response(500, f"Internal error: {str(e)}")
CatchAll(o) ==
    IF o.kind = "raise"
    THEN [o EXCEPT !.kind = "return",
                   !.env = create_error_response(500, Chars("Internal error: ") \o o.exc),
                   !.exc = <<>>]
    ELSE o

(***************************************************************************)
(* Credential gate of lambda_function.lambda_handler                       *)
(***************************************************************************)
\* headers.get('Authorization') or headers.get('authorization')
GetAuthHeader(headers) ==
    LET a == DictGet(headers, Chars("Authorization"), JNull)
    IN  IF Truthy(a) THEN a ELSE DictGet(headers, Chars("authorization"), JNull)

\* auth_header.split(' ')[1], b64decode, decode('utf-8'), split(':', 1) and
\* the unpacking into two names; ok = FALSE stands for ValueError or
\* UnicodeDecodeError
DecodeCredentials(auth_header) ==
    LET base64_credentials == SplitAll(auth_header, " ")[2]
        raw == B64Decode(base64_credentials)
        credentials == Utf8Decode(raw.out, 1, <<>>)
        parts == SplitOnce(credentials.out, ":")
    IN  IF raw.ok /\ credentials.ok /\ Len(parts) = 2
        THEN [ok |-> TRUE, username |-> parts[1], password |-> parts[2]]
        ELSE [ok |-> FALSE, username |-> <<>>, password |-> <<>>]

\* not (username != expected_username or password != expected_password)
CredentialsMatch(username, password, expected_username, expected_password) ==
    ~(username # expected_username \/ password # expected_password)

CredentialGate(environ, event) ==
    LET expected_username == environ.BASIC_AUTH_USERNAME
        expected_password == environ.BASIC_AUTH_PASSWORD
        headers == DictGet(event, Chars("headers"), JObj(<<>>))
        auth_header == GetAuthHeader(headers)
        creds == DecodeCredentials(auth_header.s)
    IN  IF ~Truthy(expected_username) \/ ~Truthy(expected_password)
        THEN Return(GateErrorResponse(Chars("Server configuration error")), FALSE, FALSE)
        ELSE IF ~IsDict(headers) THEN Raise(NoAttribute(headers, Chars("get")), FALSE, FALSE)
        ELSE IF ~Truthy(auth_header)
        THEN Return(Unauthorized(Chars("Authentication required")), FALSE, FALSE)
        ELSE IF ~IsStr(auth_header)
        THEN Raise(NoAttribute(auth_header, Chars("startswith")), FALSE, FALSE)
        ELSE IF ~StartsWith(auth_header.s, Chars("Basic "))
        THEN Return(Unauthorized(Chars("Authentication required")), FALSE, FALSE)
        ELSE IF ~creds.ok
        THEN Return(Unauthorized(Chars("Invalid authentication format")), FALSE, FALSE)
        ELSE IF ~CredentialsMatch(creds.username, creds.password,
                                  expected_username.s, expected_password.s)
        THEN Return(Unauthorized(Chars("Invalid credentials")), FALSE, FALSE)
        ELSE Pass

(***************************************************************************)
(* Request normalisation, validation and message building                  *)
(***************************************************************************)
DefaultModel == Chars("claude-sonnet-4-20250514")

\* the request object of the event: the event itself, its 'body', or the
\* decoded 'body' string (the string itself when it does not decode)
NormalizeBody(event) ==
    LET raw == DictGet(event, Chars("body"), JNull)
        decoded == Loads(raw.s)
    IN  IF ~HasKey(event, Chars("body")) THEN event
        ELSE IF IsStr(raw) THEN (IF decoded.ok THEN decoded.v ELSE raw)
        ELSE raw

\* variant: the tags line is added whether or not there are tags
build_user_message_always_tags(prompt, tags) ==
    LET tags_str == Join(Chars(", "), [i \in 1..Len(tags) |-> <<DQ>> \o tags[i] \o <<DQ>>])
        message_parts ==
            <<prompt>>
            \o <<<<NL>> \o Chars("Tags to consider: ") \o tags_str>>
            \o <<<<NL>> \o Chars("Please respond with valid JSON only.")>>
    IN  Join(<<NL>>, message_parts)

build_user_message(prompt, tags) ==
    LET tags_str == Join(Chars(", "), [i \in 1..Len(tags) |-> <<DQ>> \o tags[i] \o <<DQ>>])
        message_parts ==
            <<prompt>>
            \o (IF tags # <<>> THEN <<<<NL>> \o Chars("Tags to consider: ") \o tags_str>> ELSE <<>>)
            \o <<<<NL>> \o Chars("Please respond with valid JSON only.")>>
    IN  Join(<<NL>>, message_parts)

\* variant: None counts as a list
TagsAreListOrNone(tags) == tags.k \in {"list", "null"}

\* isinstance(tags, list)
TagsAreList(tags) == IsList(tags)

\* [str(tag) for tag in tags]: a list yields the str of each element (the
\* elements the model draws are scalars), a str its characters, a dict its
\* keys; None, a number or a bool is not iterable (TypeError)
CoerceTags(tags) ==
    CASE tags.k = "list" ->
            [ok |-> TRUE, strs |-> [i \in 1..Len(tags.items) |-> PyStr(tags.items[i])], exc |-> <<>>]
      [] tags.k = "str" ->
            [ok |-> TRUE, strs |-> [i \in 1..Len(tags.s) |-> <<tags.s[i]>>], exc |-> <<>>]
      [] tags.k = "obj" ->
            [ok |-> TRUE, strs |-> [i \in 1..Len(tags.m) |-> tags.m[i].key], exc |-> <<>>]
      [] OTHER ->
            [ok |-> FALSE, strs |-> <<>>,
             exc |-> <<"'">> \o TypeName(tags) \o Chars("' object is not iterable")]

\* variant: only an unset key counts as missing
ApiKeyIsNone(api_key) == api_key.k = "null"

\* if not api_key
ApiKeyMissing(api_key) == ~Truthy(api_key)

\* body.get(...) of prompt, tags and model, the two validations, the tag
\* coercion, the API-key check and build_user_message, up to the upstream call
\* (the same statements in both variants)
PrepareRequest(body, environ, authenticated) ==
    LET prompt == DictGet(body, Chars("prompt"), JNull)
        tags == DictGet(body, Chars("tags"), JList(<<>>))
        model == DictGet(body, Chars("model"), JStr(DefaultModel))
        api_key == environ.ANTHROPIC_API_KEY
        coerced == CoerceTags(tags)
    IN  IF ~IsDict(body) THEN Raise(NoAttribute(body, Chars("get")), authenticated, FALSE)
        ELSE IF ~Truthy(prompt)
        THEN Return(create_error_response(400, Chars("Missing required field: 'prompt'")),
                    authenticated, FALSE)
        ELSE IF ~TagsAreList(tags)
        THEN Return(create_error_response(400, Chars("'tags' must be a list of strings")),
                    authenticated, FALSE)
        ELSE IF ~coerced.ok THEN Raise(coerced.exc, authenticated, FALSE)
        ELSE IF ApiKeyMissing(api_key)
        THEN Return(create_error_response(500, Chars("API configuration error")),
                    authenticated, FALSE)
        ELSE IF ~IsStr(prompt)
        THEN Raise(Chars("sequence item 0: expected str instance, ") \o TypeName(prompt)
                     \o Chars(" found"), authenticated, TRUE)
        ELSE Call([prompt |-> prompt, tags |-> coerced.strs, model |-> model,
                   user_message |-> build_user_message(prompt.s, coerced.strs)], authenticated)

\* lambda_function.lambda_handler up to the upstream call
LambdaFunctionBeforeCall(environ, event) ==
    LET gate == CredentialGate(environ, event)
    IN  IF gate.kind # "pass" THEN gate
        ELSE CatchAll(PrepareRequest(NormalizeBody(event), environ, TRUE))

\* UnboundLocalError of "if not system_prompt" (CPython 3.11 wording)
UnboundSystemPrompt ==
    Chars("cannot access local variable 'system_prompt' where it is not associated with a value")

\* handler.lambda_handler up to the upstream call: system_prompt is a local
\* that is read before it is ever assigned
HandlerBeforeCall(environ, event) ==
    LET o == PrepareRequest(event, environ, FALSE)
    IN  CatchAll(IF o.kind = "call"
                 THEN [Raise(UnboundSystemPrompt, FALSE, TRUE) EXCEPT !.locals = o.locals]
                 ELSE o)

(***************************************************************************)
(* After the upstream call                                                 *)
(***************************************************************************)
\* TypeError of json.JSONDecodeError(msg) called without doc and pos
JSONDecodeErrorArgs ==
    Chars("JSONDecodeError.__init__() missing 2 required positional arguments: 'doc' and 'pos'")

\* extract_json_from_response: the parsed value, or the exception that the
\* "raise json.JSONDecodeError(one argument)" statement raises
extract_json_from_response(response_text) ==
    LET cleaned == Strip(RemoveFences(response_text))
        parsed == Loads(cleaned)
    IN  IF parsed.ok THEN [raised |-> "", v |-> parsed.v, exc |-> <<>>]
        ELSE [raised |-> "TypeError", v |-> JNull, exc |-> JSONDecodeErrorArgs]

\* lambda_function.lambda_handler from the upstream outcome to the envelope
LambdaFunctionAfterCall(response) ==
    LET extracted == extract_json_from_response(response.text)
        usage == Usage(response.input_tokens, response.output_tokens)
    IN  CASE response.kind = "APIError" ->
                create_error_response(500, Chars("Claude API error: ") \o response.error)
          [] response.kind = "Exception" ->
                create_error_response(500, Chars("Internal error: ") \o response.error)
          [] response.kind = "ok" /\ extracted.raised = "JSONDecodeError" ->
                WarningResponse(response.text, usage)
          [] response.kind = "ok" /\ extracted.raised = "TypeError" ->
                create_error_response(500, Chars("Internal error: ") \o extracted.exc)
          [] OTHER -> SuccessResponse(extracted.v, usage)

\* handler.lambda_handler from the upstream outcome to the envelope
HandlerAfterCall(response) ==
    LET parsed == Loads(response.text)
        usage == Usage(response.input_tokens, response.output_tokens)
    IN  CASE response.kind = "APIError" ->
                create_error_response(500, Chars("Claude API error: ") \o response.error)
          [] response.kind = "Exception" ->
                create_error_response(500, Chars("Internal error: ") \o response.error)
          [] response.kind = "ok" /\ ~parsed.ok -> WarningResponse(response.text, usage)
          [] OTHER -> SuccessResponse(parsed.v, usage)

(***************************************************************************)
(* Inputs: configurations, events and upstream outcomes                    *)
(***************************************************************************)
\* os.environ.get(name): None, or the string the variable is set to
Environments ==
    [BASIC_AUTH_USERNAME : {JNull, JStr(Chars("u"))},
     BASIC_AUTH_PASSWORD : {JNull, JStr(Chars("p")), JStr(Chars("p:pp"))},
     ANTHROPIC_API_KEY : {JNull, JStr(<<>>), JStr(Chars("k"))}]

Basic(payload) == JStr(Chars("Basic ") \o payload)

\* dTpw = base64("u:p"), dTpwOnBw = base64("u:p:pp"), dTp3 = base64("u:w"),
\* cDpw = base64("p:p"), dTdw = base64("u7p"), /Tpw = base64(0xFD ":p")
AuthorizationValues ==
    {Basic(Chars("dTpw")), Basic(Chars("dTpwOnBw")), Basic(Chars("dTp3")),
     Basic(Chars("cDpw")), Basic(Chars("dTdw")), Basic(Chars("/Tpw")),
     Basic(Chars("dTp")), Basic(<<>>), Basic(Chars(" dTpw")), Basic(Chars("dTpw zz")),
     Basic(Chars("dT!pw")), Basic(Chars("dTpw=")), Basic(<<"d", "T", "p", "U+233">>),
     JStr(Chars("basic dTpw")), JStr(Chars("Bearer dTpw")), JStr(Chars("BasicdTpw")),
     JStr(Chars("dTpw")), JStr(<<>>), JNull, JNum(5), JList(<<JStr(Chars("Basic dTpw"))>>)}

HeaderNames ==
    {Chars("Authorization"), Chars("authorization"), Chars("AUTHORIZATION"),
     Chars("AuThOrIzAtIoN")}

HeadersValues ==
    {JNull, JStr(Chars("x")), JList(<<>>), JObj(<<>>),
     JObj(<<Item(Chars("Authorization"), JStr(<<>>)),
            Item(Chars("authorization"), Basic(Chars("dTpw")))>>),
     JObj(<<Item(Chars("Authorization"), Basic(Chars("dTpw"))),
            Item(Chars("authorization"), Basic(Chars("dTp3")))>>),
     JObj(<<Item(Chars("Host"), JStr(Chars("h"))),
            Item(Chars("Authorization"), Basic(Chars("dTpw")))>>)}
    \cup {JObj(<<Item(n, v)>>) : n \in HeaderNames, v \in AuthorizationValues}

\* the event's items for 'headers': none, or one of HeadersValues
HeadersItems == {<<>>} \cup {<<Item(Chars("headers"), h)>> : h \in HeadersValues}

\* headers that carry the credentials u:p or u:p:pp under a name the gate reads
AcceptedHeadersItems ==
    {<<Item(Chars("headers"), JObj(<<Item(Chars("Authorization"), Basic(Chars("dTpw")))>>))>>,
     <<Item(Chars("headers"), JObj(<<Item(Chars("authorization"), Basic(Chars("dTpwOnBw")))>>))>>}

PromptItems ==
    {<<>>} \cup {<<Item(Chars("prompt"), v)>> :
                    v \in {JNull, JStr(<<>>), JStr(Chars("Hi")), JNum(5)}}

TagsItems ==
    {<<>>} \cup {<<Item(Chars("tags"), v)>> :
                    v \in {JList(<<>>), JList(<<JStr(Chars("a"))>>),
                           JList(<<JStr(Chars("a")), JNum(7)>>),
                           JStr(Chars("a")), JNum(3), JNull, JObj(<<>>)}}

ModelItems == {<<>>, <<Item(Chars("model"), JStr(Chars("m")))>>}

\* the items of a request object
Requests == {p \o t \o m : p \in PromptItems, t \in TagsItems, m \in ModelItems}

\* the requests tried behind every header
GateRequests == {<<>>, <<Item(Chars("prompt"), JStr(Chars("Hi")))>>}

\* the event's items for the request: the request itself, or a 'body'
Bodies ==
    Requests
    \cup {<<Item(Chars("body"), JObj(r))>> : r \in Requests}
    \cup {<<Item(Chars("body"), JStr(Dumps(JObj(r))))>> : r \in Requests}
    \cup {<<Item(Chars("body"), v)>> :
             v \in {JStr(Chars("not json")), JStr(Chars("[1]")), JStr(<<>>), JStr(Chars("{")),
                    JNull, JNum(5), JList(<<>>)}}

\* events of the gated variant
GatedEvents ==
    {JObj(h \o r) : h \in HeadersItems, r \in GateRequests}
    \cup {JObj(h \o b) : h \in AcceptedHeadersItems, b \in Bodies}

\* events of the plain variant, which reads the request from the event itself
PlainEvents ==
    {JObj(r) : r \in Requests}
    \cup {JObj(<<Item(Chars("body"), JObj(<<Item(Chars("prompt"), JStr(Chars("Hi")))>>))>>)}

UpstreamTexts ==
    {Dumps(JObj(<<Item(Chars("a"), JNum(1))>>)),
     FenceJson \o <<NL>> \o Dumps(JObj(<<Item(Chars("a"), JNum(1))>>)) \o <<NL>> \o Fence,
     Fence \o <<NL>> \o Chars("[1, 2]") \o <<NL>> \o Fence,
     <<NL>> \o FenceJson \o <<NL>> \o Chars("{}") \o <<NL>> \o Fence,
     <<DQ, "a">> \o Fence \o <<"b", DQ>>,
     Dumps(JObj(<<Item(Chars("question"), JStr(Chars("Q?"))),
                  Item(Chars("options"), JList(<<JStr(Chars("x")), JStr(Chars("y"))>>)),
                  Item(Chars("correct"), JNum(1))>>)),
     Chars("  7 "),
     Chars("not json at all"),
     Chars("Here: {}"),
     Chars("{") \o <<DQ, "a", DQ>> \o Chars(": 1"),
     <<>>}

\* what client.messages.create and response.content[0].text deliver: a text
\* with its token counts, an anthropic.APIError, or any other exception
UpstreamOutcomes ==
    {[kind |-> "ok", text |-> t, input_tokens |-> u[1], output_tokens |-> u[2], error |-> <<>>] :
        t \in UpstreamTexts, u \in {<<3, 4>>, <<12, 0>>}}
    \cup {[kind |-> k, text |-> <<>>, input_tokens |-> 0, output_tokens |-> 0, error |-> e] :
             k \in {"APIError", "Exception"}, e \in {Chars("boom")}}

NoResponse == [kind |-> "none", text |-> <<>>, input_tokens |-> 0, output_tokens |-> 0,
               error |-> <<>>]

(***************************************************************************)
(* State                                                                   *)
(***************************************************************************)
VARIABLES
    pc,             \* "idle", "calling" (inside client.messages.create), "done"
    variant,        \* the module whose lambda_handler runs
    environ,        \* os.environ as the handler reads it
    event,          \* the invocation payload
    authenticated,  \* the gate logged 'Authentication successful'
    keyChecked,     \* control passed the API-key check
    locals,         \* prompt, tags, model, user_message at the upstream call
    calls,          \* upstream calls issued by this invocation
    response,       \* the upstream outcome
    result          \* what the invocation delivered to its caller

vars == <<pc, variant, environ, event, authenticated, keyChecked, locals, calls,
          response, result>>

NoResult == [kind |-> "none", env |-> JNull, exc |-> <<>>]

Init ==
    /\ pc = "idle"
    /\ variant = "none"
    /\ environ \in Environments
    /\ event = JNull
    /\ authenticated = FALSE
    /\ keyChecked = FALSE
    /\ locals = NoLocals
    /\ calls = 0
    /\ response = NoResponse
    /\ result = NoResult

\* the handler runs from its first statement to a return, to an exception
\* that leaves it, or into the upstream call
Begin(name, ev, o) ==
    /\ variant' = name
    /\ event' = ev
    /\ authenticated' = o.authenticated
    /\ keyChecked' = o.keyChecked
    /\ locals' = o.locals
    /\ response' = NoResponse
    /\ calls' = IF o.kind = "call" THEN calls + 1 ELSE calls
    /\ pc' = IF o.kind = "call" THEN "calling" ELSE "done"
    /\ result' = CASE o.kind = "return" -> [kind |-> "returned", env |-> o.env, exc |-> <<>>]
                   [] o.kind = "raise" -> [kind |-> "raised", env |-> JNull, exc |-> o.exc]
                   [] OTHER -> NoResult
    /\ UNCHANGED environ

InvokeLambdaFunction ==
    /\ pc = "idle"
    /\ \E ev \in GatedEvents :
          Begin("lambda_function", ev, LambdaFunctionBeforeCall(environ, ev))

InvokeHandler ==
    /\ pc = "idle"
    /\ \E ev \in PlainEvents : Begin("handler", ev, HandlerBeforeCall(environ, ev))

\* the upstream call ends and the handler runs on to its return
UpstreamCompletes ==
    /\ pc = "calling"
    /\ \E r \in UpstreamOutcomes :
          /\ response' = r
          /\ result' = [kind |-> "returned",
                        env |-> IF variant = "lambda_function"
                                THEN LambdaFunctionAfterCall(r) ELSE HandlerAfterCall(r),
                        exc |-> <<>>]
    /\ pc' = "done"
    /\ UNCHANGED <<variant, environ, event, authenticated, keyChecked, locals, calls>>

\* the runtime is ready for the next invocation
Finish ==
    /\ pc = "done"
    /\ pc' = "idle"
    /\ variant' = "none"
    /\ event' = JNull
    /\ authenticated' = FALSE
    /\ keyChecked' = FALSE
    /\ locals' = NoLocals
    /\ calls' = 0
    /\ response' = NoResponse
    /\ result' = NoResult
    /\ UNCHANGED environ

Next == InvokeLambdaFunction \/ InvokeHandler \/ UpstreamCompletes \/ Finish

Spec == Init /\ [][Next]_vars

(***************************************************************************)
(* Observations on a finished invocation                                   *)
(***************************************************************************)
Returned == pc = "done" /\ result.kind = "returned"
StatusCode == DictGet(result.env, Chars("statusCode"), JNull)
ResponseHeaders == DictGet(result.env, Chars("headers"), JObj(<<>>))
\* the envelope's body, decoded
Body == Loads(DictGet(result.env, Chars("body"), JStr(<<>>)).s).v
BodyField(name) == DictGet(Body, Chars(name), JNull)

(***************************************************************************)
(* The message builder on its own: build_user_message applied to prompts   *)
(* and tag lists drawn from a small alphabet                               *)
(***************************************************************************)
MaxPromptLen == 2
MaxTagLen == 1
MaxTags == 2

SeqsUpTo(alphabet, n) == UNION {[1..k -> alphabet] : k \in 0..n}

Prompts == SeqsUpTo({"a", NL, DQ}, MaxPromptLen) \ {<<>>}
TagStrings == SeqsUpTo({"t", DQ}, MaxTagLen)
TagLists == SeqsUpTo(TagStrings, MaxTags)

InitMsg ==
    /\ pc = "idle"
    /\ variant = "none"
    /\ environ = [BASIC_AUTH_USERNAME |-> JNull, BASIC_AUTH_PASSWORD |-> JNull,
                  ANTHROPIC_API_KEY |-> JNull]
    /\ event = JNull
    /\ authenticated = FALSE
    /\ keyChecked = FALSE
    /\ locals = NoLocals
    /\ calls = 0
    /\ response = NoResponse
    /\ result = NoResult

BuildMessage ==
    /\ pc = "idle"
    /\ \E prompt \in Prompts, tags \in TagLists :
          locals' = [prompt |-> JStr(prompt), tags |-> tags, model |-> JStr(DefaultModel),
                     user_message |-> build_user_message(prompt, tags)]
    /\ pc' = "built"
    /\ UNCHANGED <<variant, environ, event, authenticated, keyChecked, calls, response, result>>

DiscardMessage ==
    /\ pc = "built"
    /\ pc' = "idle"
    /\ locals' = NoLocals
    /\ UNCHANGED <<variant, environ, event, authenticated, keyChecked, calls, response, result>>

NextMsg == BuildMessage \/ DiscardMessage

SpecMsg == InitMsg /\ [][NextMsg]_vars

(***************************************************************************)
(* Vocabulary of the properties                                            *)
(***************************************************************************)
Gated == variant = "lambda_function"
Plain == variant = "handler"
Started == pc \in {"calling", "done"}

GateConfigured ==
    Truthy(environ.BASIC_AUTH_USERNAME) /\ Truthy(environ.BASIC_AUTH_PASSWORD)
KeyConfigured == Truthy(environ.ANTHROPIC_API_KEY)

\* the invocation is past the gate, where its variant has one
PastGate == Plain \/ (Gated /\ authenticated)

\* the request object the running variant reads
RequestSeen == IF Gated THEN NormalizeBody(event) ELSE event
RequestField(name, default) ==
    IF IsDict(RequestSeen) THEN DictGet(RequestSeen, Chars(name), default) ELSE default
PromptSeen == RequestField("prompt", JNull)
TagsPresent == IsDict(RequestSeen) /\ HasKey(RequestSeen, Chars("tags"))

\* a non-empty prompt string and list-shaped tags (or none)
ValidRequest ==
    /\ IsDict(RequestSeen)
    /\ IsStr(PromptSeen) /\ PromptSeen.s # <<>>
    /\ IsList(RequestField("tags", JList(<<>>)))

ErrorIs(message) ==
    /\ BodyField("success") = JBool(FALSE)
    /\ BodyField("error") = JStr(Chars(message))

UpperCase == Chars("ABCDEFGHIJKLMNOPQRSTUVWXYZ")
LowerCase == Chars("abcdefghijklmnopqrstuvwxyz")
LowerChar(c) ==
    IF \E i \in 1..26 : UpperCase[i] = c
    THEN LowerCase[CHOOSE i \in 1..26 : UpperCase[i] = c] ELSE c
Lower(s) == [i \in 1..Len(s) |-> LowerChar(s[i])]

\* base64 of an ASCII string (RFC 4648, with padding)
Ord(c) == (CHOOSE i \in 1..Len(AsciiTable) : AsciiTable[i] = c) - 1
RECURSIVE B64EncodeBytes(_)
B64EncodeBytes(bs) ==
    LET a == bs[1]
        b == IF Len(bs) >= 2 THEN bs[2] ELSE 0
        c == IF Len(bs) >= 3 THEN bs[3] ELSE 0
        s1 == B64Alphabet[(a \div 4) + 1]
        s2 == B64Alphabet[((a % 4) * 16 + (b \div 16)) + 1]
        s3 == B64Alphabet[((b % 16) * 4 + (c \div 64)) + 1]
        s4 == B64Alphabet[(c % 64) + 1]
    IN  IF bs = <<>> THEN <<>>
        ELSE IF Len(bs) = 1 THEN <<s1, s2, "=", "=">>
        ELSE IF Len(bs) = 2 THEN <<s1, s2, s3, "=">>
        ELSE <<s1, s2, s3, s4>> \o B64EncodeBytes(SubSeq(bs, 4, Len(bs)))
B64Encode(s) == B64EncodeBytes([i \in 1..Len(s) |-> Ord(s[i])])

\* "Basic " and the base64 of user:pass for the configured credentials
ConfiguredAuthorization ==
    Basic(B64Encode(environ.BASIC_AUTH_USERNAME.s \o <<":">> \o environ.BASIC_AUTH_PASSWORD.s))

HeadersSeen == DictGet(event, Chars("headers"), JObj(<<>>))

(***************************************************************************)
(* Properties                                                              *)
(***************************************************************************)

\* C1: in lambda_function.lambda_handler, when the invocation passed the gate
\* and validation, the API key is configured and the upstream text is not
\* valid JSON after fence removal and trimming, the envelope is 200 with
\* success=true, warning="Response is not valid JSON", raw_response = the
\* upstream text and usage = the upstream token counts.
C1_UnparseableTextIsWarning ==
    (/\ Gated /\ pc = "done" /\ authenticated /\ keyChecked
     /\ response.kind = "ok"
     /\ ~Loads(Strip(RemoveFences(response.text))).ok)
    => /\ Returned
       /\ StatusCode = JNum(200)
       /\ BodyField("success") = JBool(TRUE)
       /\ BodyField("warning") = JStr(Chars("Response is not valid JSON"))
       /\ BodyField("raw_response") = JStr(response.text)
       /\ BodyField("usage") = Usage(response.input_tokens, response.output_tokens)

\* C2: in both variants, a request past the gate with a non-empty prompt,
\* list-shaped tags and a configured API key makes the upstream call exactly
\* once, and when that call returns text that is valid JSON the envelope is
\* 200 with success=true, data = the parsed JSON value and usage = the
\* upstream token counts.
C2_ValidJsonIsSuccess ==
    (pc = "done" /\ PastGate /\ ValidRequest /\ KeyConfigured)
    => /\ calls = 1
       /\ (response.kind = "ok" /\ Loads(response.text).ok)
          => /\ Returned
             /\ StatusCode = JNum(200)
             /\ BodyField("success") = JBool(TRUE)
             /\ BodyField("data") = Loads(response.text).v
             /\ BodyField("usage") = Usage(response.input_tokens, response.output_tokens)

\* the header under 'Authorization' (or 'authorization'), if the event has one
C3_Presented ==
    IF IsDict(HeadersSeen) THEN GetAuthHeader(HeadersSeen) ELSE JNull

\* the presented header has the 'Basic ' prefix and decodes, splitting once
\* on the first ':', to exactly the configured username and password
C3_Accepted ==
    /\ IsStr(C3_Presented)
    /\ StartsWith(C3_Presented.s, Chars("Basic "))
    /\ DecodeCredentials(C3_Presented.s).ok
    /\ DecodeCredentials(C3_Presented.s).username = environ.BASIC_AUTH_USERNAME.s
    /\ DecodeCredentials(C3_Presented.s).password = environ.BASIC_AUTH_PASSWORD.s

\* C3: with both Basic-Auth secrets configured, an invocation whose
\* Authorization header is missing, lacks the 'Basic ' prefix, does not
\* decode as Base64/UTF-8 'user:pass' or decodes to other credentials gets
\* 401 with WWW-Authenticate and no upstream call; one whose header decodes
\* to exactly the configured username and password passes the gate and the
\* handler goes on to the request.
C3_GateDecision ==
    (Gated /\ Started /\ GateConfigured)
    => /\ C3_Accepted <=> authenticated
       /\ ~C3_Accepted
          => /\ Returned
             /\ StatusCode = JNum(401)
             /\ HasKey(ResponseHeaders, Chars("WWW-Authenticate"))
             /\ calls = 0
       /\ authenticated => (pc = "calling" \/ (Returned /\ StatusCode # JNum(401)))

\* C4: for every payload that is a JSON object and every upstream outcome,
\* lambda_function.lambda_handler ends by returning an envelope with a
\* statusCode; no exception leaves the handler.
C4_NoExceptionEscapes ==
    (Gated /\ pc = "done")
    => /\ result.kind = "returned"
       /\ HasKey(result.env, Chars("statusCode"))

\* C5: every envelope lambda_function.lambda_handler returns carries
\* Content-Type: application/json and Access-Control-Allow-Origin: *, and
\* every 401 envelope also carries WWW-Authenticate.
C5_EnvelopeHeaders ==
    (Gated /\ Returned)
    => /\ DictGet(ResponseHeaders, Chars("Content-Type"), JNull) = JStr(Chars("application/json"))
       /\ DictGet(ResponseHeaders, Chars("Access-Control-Allow-Origin"), JNull) = JStr(Chars("*"))
       /\ StatusCode = JNum(401) => HasKey(ResponseHeaders, Chars("WWW-Authenticate"))

\* the payload has one of the shapes the normaliser accepts: the event is the
\* request, 'body' is an object, 'body' is a JSON-encoded object, or 'body'
\* is a string that does not decode and is kept unchanged
C6_AcceptedShape ==
    LET raw == DictGet(event, Chars("body"), JNull)
    IN  \/ ~HasKey(event, Chars("body"))
        \/ IsDict(raw)
        \/ IsStr(raw) /\ (~Loads(raw.s).ok \/ IsDict(Loads(raw.s).v))

\* C6: an authenticated invocation of lambda_function.lambda_handler from
\* which no non-empty prompt can be extracted, in every accepted payload
\* shape, returns 400 with success=false and the error "Missing required
\* field: 'prompt'", without an upstream call.
C6_MissingPromptIs400 ==
    (Gated /\ pc = "done" /\ authenticated /\ C6_AcceptedShape /\ ~Truthy(PromptSeen))
    => /\ Returned
       /\ StatusCode = JNum(400)
       /\ ErrorIs("Missing required field: 'prompt'")
       /\ calls = 0

\* C7: in both variants, past the gate, a request whose 'tags' is present but
\* not a list (a string, a number, an object, null) returns 400 with
\* success=false and makes no upstream call, with or without an API key; a
\* request without 'tags' is not refused for it and proceeds with the empty
\* list.
C7_TagsMustBeList ==
    (Started /\ PastGate /\ IsDict(RequestSeen))
    => /\ (TagsPresent /\ ~IsList(RequestField("tags", JNull)))
          => /\ Returned
             /\ StatusCode = JNum(400)
             /\ BodyField("success") = JBool(FALSE)
             /\ calls = 0
       /\ (~TagsPresent /\ Truthy(PromptSeen))
          => /\ ~(Returned /\ StatusCode = JNum(400))
             /\ (keyChecked /\ IsStr(PromptSeen))
                => locals.prompt = PromptSeen /\ locals.tags = <<>>

\* null tags in a JSON-encoded body were refused although the key is configured
C7_Witness ==
    /\ Gated /\ authenticated /\ Returned /\ KeyConfigured
    /\ IsStr(DictGet(event, Chars("body"), JNull))
    /\ TagsPresent /\ RequestField("tags", JList(<<>>)) = JNull
    /\ Truthy(PromptSeen)
    /\ StatusCode = JNum(400)
    /\ ErrorIs("'tags' must be a list of strings")

\* C8: in both variants, a request past the gate and past validation (a
\* non-empty prompt, list-shaped tags) while ANTHROPIC_API_KEY is absent or
\* empty returns 500 "API configuration error"; and an upstream call is only
\* ever made after the API-key check succeeded, never without a key.
C8_NoCallWithoutKey ==
    /\ (/\ Started /\ PastGate /\ IsDict(RequestSeen)
        /\ Truthy(PromptSeen) /\ IsList(RequestField("tags", JList(<<>>)))
        /\ ~KeyConfigured)
       => /\ Returned
          /\ StatusCode = JNum(500)
          /\ ErrorIs("API configuration error")
          /\ calls = 0
    /\ calls > 0 => keyChecked /\ KeyConfigured
    /\ pc = "calling" => keyChecked /\ KeyConfigured

\* a valid request met an empty ANTHROPIC_API_KEY
C8_Witness ==
    /\ Gated /\ authenticated /\ Returned /\ ValidRequest
    /\ environ.ANTHROPIC_API_KEY = JStr(<<>>)
    /\ StatusCode = JNum(500)
    /\ ErrorIs("API configuration error")

\* C9: the gate finds the Authorization header under every casing of its
\* name: a single header whose name is 'authorization' in any casing and
\* whose value is "Basic " + base64(user:pass) for the configured
\* credentials authenticates the request.
C9_HeaderNameAnyCase ==
    (/\ Gated /\ Started /\ GateConfigured
     /\ IsDict(HeadersSeen) /\ Len(HeadersSeen.m) = 1
     /\ Lower(HeadersSeen.m[1].key) = Chars("authorization")
     /\ HeadersSeen.m[1].val = ConfiguredAuthorization)
    => authenticated

Instruction == Chars("Please respond with valid JSON only.")

\* "t1", "t2", ...: every tag in order, double-quoted, separated by ", "
RECURSIVE C10_QuotedTags(_)
C10_QuotedTags(tags) ==
    IF Len(tags) = 1 THEN <<DQ>> \o tags[1] \o <<DQ>>
    ELSE <<DQ>> \o tags[1] \o <<DQ, ",", " ">> \o C10_QuotedTags(Tail(tags))

\* C10: for a non-empty prompt and a list of string tags the message begins
\* with the prompt verbatim, ends with 'Please respond with valid JSON
\* only.', and between them holds the line 'Tags to consider: "t1", "t2",
\* ...' (every tag in input order, double-quoted, comma-separated) exactly
\* when the tag list is non-empty.
C10_MessageLayout ==
    pc = "built"
    => LET m == locals.user_message
           p == locals.prompt.s
           between == SubSeq(m, Len(p) + 1, Len(m) - Len(Instruction))
       IN  /\ Len(m) >= Len(p) + Len(Instruction)
           /\ StartsWith(m, p)
           /\ EndsWith(m, Instruction)
           /\ locals.tags # <<>>
              => between = <<NL, NL>> \o Chars("Tags to consider: ")
                           \o C10_QuotedTags(locals.tags) \o <<NL, NL>>
           /\ locals.tags = <<>> => between = <<NL, NL>>

\* a message was built from two tags, one of them holding a double quote
C10_Witness ==
    /\ pc = "built"
    /\ Len(locals.tags) = 2 /\ locals.tags[1] = <<DQ>> /\ locals.tags[2] = <<"t">>
    /\ locals.prompt.s = <<"a", NL>>
    /\ locals.user_message =
          <<"a", NL, NL, NL>> \o Chars("Tags to consider: ")
          \o <<DQ, DQ, DQ, ",", " ", DQ, "t", DQ, NL, NL>> \o Instruction

====
